---- MODULE Spec2Model ----
(***************************************************************************)
(* concisely-bot: the ingestion handler (handle_message), the attachment   *)
(* description step (_describe_attachment) and the summarization trigger   *)
(* engine (maybe_generate_summary) of src/handlers.py, over the store of   *)
(* src/db.py.                                                              *)
(*                                                                         *)
(* Scheduling is asyncio's: one thread, a task runs from one await that    *)
(* suspends to the next, so every action below is one such segment of one  *)
(* task.  An external call (store, gateway, model) is a suspension: the    *)
(* action named <call>Returns is the segment that runs when the call       *)
(* returns or raises.                                                      *)
(*                                                                         *)
(* handlers.py imports the store functions under the names                 *)
(* get_last_summary_message_id, set_last_summary_message_id,               *)
(* get_messages_for_summary, get_sticker_description and                   *)
(* save_sticker_description; db.py defines them as get_last_summary_id,    *)
(* set_last_summary_id, get_messages, get_sticker and save_sticker.  The   *)
(* model binds each call to the db.py function and keeps db.py's names.    *)
(***************************************************************************)
EXTENDS Integers, Sequences, FiniteSets, TLC

VARIABLES
    task,              \* one handle_message invocation per (chat_id, message_id)
    message,           \* store table message
    chat_state,        \* store table chat_state (the watermark rows)
    sticker_cache,     \* store table sticker_cache
    summary,           \* store table summary, in creation order
    generating_chats,  \* handlers.generating_chats
    summary_locks,     \* handlers.summary_locks
    db_lock,           \* Database._lock
    outbox,            \* what bot.send_message delivered: the window of each summary sent
    delivered,         \* how many inbound messages the gateway has dispatched
    wide_log,          \* the last record append_wide_log wrote
    prompt_window,     \* the message list given to generate_full_prompt
    prompts            \* what generate_full_prompt returned for it, call by call

vars == <<task, message, chat_state, sticker_cache, summary,
          generating_chats, summary_locks, db_lock, outbox, delivered,
          wide_log, prompt_window, prompts>>

\* the variables of the prompt assembler
promptVars == <<prompt_window, prompts>>

----------------------------------------------------------------------------
(* Bounds of the model *)

\* text messages: inbound messages dispatched in one run, and handle_message
\* tasks in progress at once
MaxDelivered == 4
MaxActive == 3
\* the same where messages carry attachments
MaxIngested == 3
MaxIngesting == 2

----------------------------------------------------------------------------
(* Configuration: src/config.py *)

SUMMARY_INTERVAL == 7

\* the two monitored chats, -1001829561306 and -1002215041522
CHAT_IDS == {"chat_a", "chat_b"}

SUMMARY_INTERVALS == [c \in CHAT_IDS |-> IF c = "chat_a" THEN 500 ELSE 7]

\* SUMMARY_INTERVALS.get(chat_id, SUMMARY_INTERVAL)
interval(c) ==
    IF c \in DOMAIN SUMMARY_INTERVALS THEN SUMMARY_INTERVALS[c] ELSE SUMMARY_INTERVAL

\* The message ids the gateway may deliver in chat c, in any order and more
\* than once: 1 and 2, the same a whole interval later, and 1 two intervals
\* later, so that the differences interval - 1, interval and interval + 1
\* occur and a chat can be summarized twice.
MessageIds(c) ==
    {1, 2, interval(c) + 1, interval(c) + 2, 2 * interval(c) + 1}

\* the chats the bot is a member of: the two of config.py and one that
\* SUMMARY_INTERVALS does not list
Chats == CHAT_IDS \cup {"chat_c"}

Tasks == UNION {{<<c, m>> : m \in MessageIds(c)} : c \in Chats}

chat_id(t) == t[1]
message_id(t) == t[2]

----------------------------------------------------------------------------
(* Inputs: what an inbound message carries *)

\* content types, as _describe_attachment dispatches on them
\*   "none"    - text message, or a type with no description step
\*   "photo"   - photo / video_note: download, then one vision call
\*   "sticker" - sticker: cache lookup first
\*   "voice"   - voice: no branch of _describe_attachment takes it
AttachmentTypes == {"none", "photo", "sticker", "voice"}

\* the stickers: "animated_sticker" is one with is_animated or is_video set
\* and no thumbnail (one with a thumbnail goes the way of "sticker")
StickerTypes == {"sticker", "animated_sticker"}

\* the file_unique_id of a sticker and the text the vision model gives
FILE_UNIQUE_ID == "abc123"
\* and that of the animated sticker, another file
ANIMATED_FILE_UNIQUE_ID == "def456"
NoDescription == "None"
DescriptionText == "a dancing cat"

\* result.text of the vision call made for task t's attachment: the model
\* need not give the same words twice
described(t) ==
    IF t[2] = 1 THEN DescriptionText ELSE "a cat that dances"

----------------------------------------------------------------------------
(* asyncio.Lock: holder and FIFO waiters.  release() wakes the first       *)
(* waiter, and acquire() queues behind any waiter, so the lock passes to   *)
(* the head of the queue.                                                  *)

NoTask == <<>>

FreeLock == [holder |-> NoTask, waiters |-> <<>>]

Acquire(l, t) ==
    IF l.holder = NoTask /\ l.waiters = <<>>
    THEN [l EXCEPT !.holder = t]
    ELSE [l EXCEPT !.waiters = Append(@, t)]

\* a release that wakes no waiter
ReleaseNoWakeup(l) == [l EXCEPT !.holder = NoTask]

Release(l) ==
    IF l.waiters = <<>>
    THEN FreeLock
    ELSE [holder |-> Head(l.waiters), waiters |-> Tail(l.waiters)]

----------------------------------------------------------------------------
(* A handle_message task *)

\* pc is the call the task is suspended in ("idle": no handler is running
\* for the message); last_summary_id 0 stands for "not read yet"
IdleTask ==
    [pc |-> "idle", att |-> "none", desc |-> NoDescription,
     last_summary_id |-> 0, window |-> <<>>, attempted |-> FALSE, sent |-> FALSE]

Active == {t \in Tasks : task[t].pc # "idle"}

\* src/utils.py 164-178, called from handlers.py 247-252: the context of a
\* finished handler; summary_info's fields, or the error that was caught
LogRecord(t, r, rsn, err) ==
    [request_id |-> t, reason |-> rsn, error |-> err,
     last_summary_id |-> r.last_summary_id,
     attempted |-> r.attempted, sent |-> r.sent]

NoRecord == LogRecord(NoTask, IdleTask, "None", FALSE)

\* The process starts (src/__main__.py 13-22) with empty registries and no
\* connection; the store outlives the process (init_db defines its tables
\* IF NOT EXISTS): a chat is new, or an earlier run has seen its message 1,
\* whose id is 1 and which is stored and is the chat's watermark.
Start(chats) ==
    /\ task = [t \in Tasks |-> IdleTask]
    /\ \E seen \in SUBSET chats :
          /\ message = {[chat_id |-> c, message_id |-> 1,
                         description |-> NoDescription] : c \in seen}
          /\ chat_state = {[chat_id |-> c,
                            last_summary_message_id |-> 1] :
                                c \in seen}
    /\ sticker_cache = {}
    /\ summary = <<>>
    /\ generating_chats = {}
    /\ summary_locks = <<>>
    /\ db_lock = FreeLock
    /\ outbox = {}
    /\ delivered = 0
    /\ wide_log = NoRecord
    /\ prompt_window = <<>>
    /\ prompts = <<>>

Init == Start(CHAT_IDS)

----------------------------------------------------------------------------
(* The store: src/db.py.  Every call takes Database._lock (query / create, *)
(* lines 58-71), is answered by the store or raises, and releases it.      *)

\* get_last_summary_id: the rows "WHERE chat_id = $chat_id LIMIT 1"
WatermarkRows(c) == {r \in chat_state : r.chat_id = c}

HasWatermark(c) == WatermarkRows(c) # {}

\* rows[0]["last_summary_message_id"]; chat_id is UNIQUE, so one row at most
Watermark(c) == (CHOOSE r \in WatermarkRows(c) : TRUE).last_summary_message_id

\* a set_last_summary_id that leaves a row the chat already has as it is
set_last_summary_id_insert_only(rows, c, m) ==
    IF \E r \in rows : r.chat_id = c THEN rows
    ELSE rows \cup {[chat_id |-> c, last_summary_message_id |-> m]}

\* a set_last_summary_id that writes nothing
set_last_summary_id_dropped(rows, c, m) == rows

\* set_last_summary_id: UPSERT chat_state SET ... WHERE chat_id = $chat_id
set_last_summary_id(rows, c, m) ==
    {r \in rows : r.chat_id # c}
        \cup {[chat_id |-> c, last_summary_message_id |-> m]}

\* ORDER BY message_id ASC: the ids of a set of rows, smallest first
RECURSIVE Ascending(_)
Ascending(ids) ==
    IF ids = {} THEN <<>>
    ELSE LET lowest == CHOOSE x \in ids : \A y \in ids : x <= y
         IN  <<lowest>> \o Ascending(ids \ {lowest})

\* a get_messages whose range includes from_id
get_messages_from_inclusive(c, from_id, to_id) ==
    Ascending({r.message_id : r \in {x \in message : /\ x.chat_id = c
                                                     /\ x.message_id >= from_id
                                                     /\ x.message_id <= to_id}})

\* get_messages: message_id > $from_id AND message_id <= $to_id
\* ORDER BY message_id ASC, as the list of the rows' ids
get_messages(c, from_id, to_id) ==
    Ascending({r.message_id : r \in {x \in message : /\ x.chat_id = c
                                                     /\ x.message_id > from_id
                                                     /\ x.message_id <= to_id}})

\* a save_summary given the two ends of the window the wrong way round
save_summary_ends_swapped(rows, c, from_id, to_id, text) ==
    Append(rows, [chat_id |-> c, from_message_id |-> to_id,
                  to_message_id |-> from_id, summary_text |-> text])

\* save_summary: db.create("summary", record)
save_summary(rows, c, from_id, to_id, text) ==
    Append(rows, [chat_id |-> c, from_message_id |-> from_id,
                  to_message_id |-> to_id, summary_text |-> text])

\* chat_message_idx ... COLUMNS chat_id, message_id UNIQUE
MessageExists(c, m) == \E r \in message : r.chat_id = c /\ r.message_id = m

\* a sticker_cache in which no row is ever found for an id
StickerNeverFound(f) == FALSE

\* sticker_cache_idx ... COLUMNS file_unique_id UNIQUE
StickerCached(f) == \E r \in sticker_cache : r.file_unique_id = f

\* a store call made by task t: "async with self.lock", after the caller's
\* previous store call, if any, released it
DbCall(l, t) == Acquire(l, t)

----------------------------------------------------------------------------
(* maybe_generate_summary: src/handlers.py 52-140 *)

\* the function without its line 61
FastPathOmitted(c) == FALSE

\* line 61: the check made without the lock
FastPathGenerating(c) == c \in generating_chats

\* the function without its line 70
LockedCheckOmitted(c) == FALSE

\* line 70: the check repeated under the lock
LockedGenerating(c) == c \in generating_chats

\* line 85 with the threshold one too low
IntervalOffByOne(m, w, c) == m - w < interval(c) - 1

\* line 85 with the comparison turned round
IntervalAlwaysReached(m, w, c) == m - w < 0

\* line 85: current_message_id - last_summary_id < interval
IntervalNotReached(m, w, c) == m - w < interval(c)

\* the function without its line 91
FlagNotSet(g, c) == g

\* a line 91 that marks every chat, one flag for the whole process
AddGeneratingAll(g, c) == g \cup CHAT_IDS

\* line 91
AddGenerating(g, c) == g \cup {c}

\* the function without its line 139
FlagNotCleared(g, c) == g

\* line 139, in the finally block
DiscardGenerating(g, c) == g \ {c}

\* "return summary_info" (r is the task as it returns) with a reason, back
\* through handle_message's try block (line 242) and its finally block
\* (lines 247-252), which logs the context; the handler is over
Returned(t, r, rsn) ==
    /\ task' = [task EXCEPT ![t] = IdleTask]
    /\ wide_log' = LogRecord(t, r, rsn, FALSE)

\* an exception that leaves maybe_generate_summary (or save_message) and is
\* caught by handle_message (lines 244-252)
Raised(t, r) ==
    /\ task' = [task EXCEPT ![t] = IdleTask]
    /\ wide_log' = LogRecord(t, r, "None", TRUE)

\* the task goes on to its next suspension
Suspended(t, r) ==
    /\ task' = [task EXCEPT ![t] = r]
    /\ UNCHANGED wide_log

\* an exception that leaves the "async with" block with the lock held
RaisedHoldingLock(t) ==
    /\ Raised(t, task[t])
    /\ UNCHANGED summary_locks

\* lines 69-91: an exception raised under summary_locks[chat_id]; "async
\* with" releases the lock and the exception leaves maybe_generate_summary
RaisedUnderLock(t) ==
    /\ Raised(t, task[t])
    /\ summary_locks' = [summary_locks EXCEPT ![chat_id(t)] = Release(@)]

\* lines 66-67
WithLock(c) ==
    IF c \in DOMAIN summary_locks THEN summary_locks
    ELSE summary_locks @@ (c :> FreeLock)

\* lines 70-73, run by the task that holds summary_locks[chat_id]; locks and
\* dbl are the locks as the segment found them
UnderSummaryLock(t, locks, dbl) ==
    LET c == chat_id(t) IN
    IF LockedGenerating(c)
    THEN /\ Returned(t, task[t], "already_generating")
         /\ summary_locks' = [locks EXCEPT ![c] = Release(@)]
         /\ db_lock' = dbl
    ELSE /\ Suspended(t, [task[t] EXCEPT !.pc = "get_last_summary_id"])
         /\ summary_locks' = locks
         /\ db_lock' = DbCall(dbl, t)

\* lines 52-73: the call, up to its first suspension
maybe_generate_summary(t, dbl) ==
    LET c == chat_id(t)
        locks == WithLock(c)
        taken == [locks EXCEPT ![c] = Acquire(@, t)]
    IN
    IF FastPathGenerating(c)
    THEN /\ Returned(t, task[t], "already_generating")
         /\ summary_locks' = summary_locks
         /\ db_lock' = dbl
    ELSE IF taken[c].holder = t
         THEN UnderSummaryLock(t, taken, dbl)
         ELSE /\ Suspended(t, [task[t] EXCEPT !.pc = "summary_lock"])
              /\ summary_locks' = taken
              /\ db_lock' = dbl

\* line 69: the lock is handed to a task that waited for it
SummaryLockAcquired(t) ==
    /\ task[t].pc = "summary_lock"
    /\ summary_locks[chat_id(t)].holder = t
    /\ UnderSummaryLock(t, summary_locks, db_lock)
    /\ UNCHANGED <<message, chat_state, sticker_cache, summary,
                   generating_chats, outbox, delivered>>
    /\ UNCHANGED promptVars

\* lines 73-91 (and 93-99): get_last_summary_id answers
GetLastSummaryIdReturns(t) ==
    LET c == chat_id(t)
        m == message_id(t)
        unlocked == [summary_locks EXCEPT ![c] = Release(@)]
    IN
    /\ task[t].pc = "get_last_summary_id"
    /\ db_lock.holder = t
    /\ \/ /\ ~HasWatermark(c)
          \* lines 77-78: first run, set_last_summary_id is called
          /\ Suspended(t, [task[t] EXCEPT !.pc = "set_first_run"])
          /\ db_lock' = DbCall(Release(db_lock), t)
          /\ UNCHANGED <<summary_locks, generating_chats>>
       \/ /\ HasWatermark(c)
          /\ IntervalNotReached(m, Watermark(c), c)
          /\ Returned(t, [task[t] EXCEPT !.last_summary_id = Watermark(c)],
                      "interval_not_reached")
          /\ summary_locks' = unlocked
          /\ db_lock' = Release(db_lock)
          /\ UNCHANGED generating_chats
       \/ /\ HasWatermark(c)
          /\ ~IntervalNotReached(m, Watermark(c), c)
          \* lines 91-99: flag set, lock released, get_messages is called
          /\ generating_chats' = AddGenerating(generating_chats, c)
          /\ Suspended(t, [task[t] EXCEPT !.pc = "get_messages",
                                          !.last_summary_id = Watermark(c),
                                          !.attempted = TRUE])
          /\ summary_locks' = unlocked
          /\ db_lock' = DbCall(Release(db_lock), t)
       \/ \* the store raises
          /\ RaisedUnderLock(t)
          /\ db_lock' = Release(db_lock)
          /\ UNCHANGED generating_chats
    /\ UNCHANGED <<message, chat_state, sticker_cache, summary, outbox,
                   delivered>>
    /\ UNCHANGED promptVars

\* lines 78-81: the first-run set_last_summary_id answers
SetFirstRunReturns(t) ==
    LET c == chat_id(t)
        m == message_id(t)
    IN
    /\ task[t].pc = "set_first_run"
    /\ db_lock.holder = t
    /\ \/ /\ chat_state' = set_last_summary_id(chat_state, c, m)
          /\ Returned(t, task[t], "first_run")
          /\ summary_locks' = [summary_locks EXCEPT ![c] = Release(@)]
       \/ /\ RaisedUnderLock(t)
          /\ UNCHANGED chat_state
    /\ db_lock' = Release(db_lock)
    /\ UNCHANGED <<message, sticker_cache, summary, generating_chats, outbox,
                   delivered>>
    /\ UNCHANGED promptVars

\* a failure after which the task fetches its window again
GenerationRetried(t) ==
    /\ Suspended(t, [task[t] EXCEPT !.pc = "get_messages"])
    /\ UNCHANGED generating_chats

\* lines 132-140: except and finally of the generation
GenerationFailed(t) ==
    /\ Returned(t, task[t], "error")
    /\ generating_chats' = DiscardGenerating(generating_chats, chat_id(t))

\* lines 99-107: get_messages answers
GetMessagesReturns(t) ==
    LET c == chat_id(t)
        messages == get_messages(c, task[t].last_summary_id, message_id(t))
    IN
    /\ task[t].pc = "get_messages"
    /\ db_lock.holder = t
    /\ \/ /\ messages = <<>>
          /\ Returned(t, task[t], "no_messages")
          /\ generating_chats' = DiscardGenerating(generating_chats, c)
       \/ /\ messages # <<>>
          /\ Suspended(t, [task[t] EXCEPT !.pc = "generate_summary",
                                          !.window = messages])
          /\ UNCHANGED generating_chats
       \/ GenerationFailed(t)
    /\ db_lock' = Release(db_lock)
    /\ UNCHANGED <<message, chat_state, sticker_cache, summary,
                   summary_locks, outbox, delivered>>
    /\ UNCHANGED promptVars

\* lines 107-108 and 39-46: the model answers, send_summary sends as HTML
GenerateSummaryReturns(t) ==
    /\ task[t].pc = "generate_summary"
    /\ \/ /\ Suspended(t, [task[t] EXCEPT !.pc = "send_html"])
          /\ UNCHANGED generating_chats
       \/ GenerationFailed(t)
    /\ UNCHANGED <<message, chat_state, sticker_cache, summary,
                   summary_locks, db_lock, outbox, delivered>>
    /\ UNCHANGED promptVars

\* src/utils.py 144: the tags fix_html keeps
ALLOWED_TAGS == {"b", "i", "a", "code", "pre", "s", "u"}

\* A text, as far as send_summary looks at it: how many characters it has
\* and which tags occur in it.  result.text, the model's answer for the
\* window that ends at the task's message: at the end of the chat's first
\* interval a long text with a tag Telegram does not know, then a short
\* well-formed one, then a long well-formed one.
result_text(t) ==
    LET m == message_id(t)
        k == interval(chat_id(t))
    IN  [chars |-> IF m = k + 2 THEN 1200 ELSE 3500,
         tags |-> IF m = k + 1 THEN {"b", "div"} ELSE {"b", "a"}]

\* line 39: summary[:3000]
Truncated(text) == [text EXCEPT !.chars = IF @ > 3000 THEN 3000 ELSE @]

\* src/utils.py 141-153: tags outside the allowed set are unwrapped
fix_html(text) == [text EXCEPT !.tags = @ \cap ALLOWED_TAGS]

\* lines 39-43: the summary part of full_message
full_message(text) == fix_html(Truncated(text))

\* bot.send_message delivered the summary of the task's window; mode is the
\* parse_mode of the call that succeeded
Delivered(t, mode) ==
    outbox \cup {[chat_id |-> chat_id(t),
                  from_message_id |-> task[t].last_summary_id,
                  to_message_id |-> message_id(t),
                  text |-> full_message(result_text(t)),
                  parse_mode |-> mode]}

\* a send_summary whose failed plain-text send is swallowed
SendFailureSwallowed(t) ==
    /\ Suspended(t, [task[t] EXCEPT !.pc = "set_last_summary_id"])
    /\ db_lock' = DbCall(db_lock, t)
    /\ UNCHANGED <<outbox, generating_chats>>

\* line 49 raises: the exception leaves send_summary (line 108) and is
\* caught at line 132
SendFailed(t) ==
    /\ GenerationFailed(t)
    /\ UNCHANGED <<outbox, db_lock>>

\* lines 46-49 and 108-113: the HTML send answers
SendHtmlReturns(t) ==
    /\ task[t].pc = "send_html"
    /\ \/ /\ outbox' = Delivered(t, "HTML")
          /\ Suspended(t, [task[t] EXCEPT !.pc = "set_last_summary_id"])
          /\ db_lock' = DbCall(db_lock, t)
       \/ \* rejected: the except branch sends plain text
          /\ Suspended(t, [task[t] EXCEPT !.pc = "send_plain"])
          /\ UNCHANGED <<outbox, db_lock>>
    /\ UNCHANGED <<message, chat_state, sticker_cache, summary,
                   generating_chats, summary_locks, delivered>>
    /\ UNCHANGED promptVars

\* lines 49 and 108-113: the plain-text send answers
SendPlainReturns(t) ==
    /\ task[t].pc = "send_plain"
    /\ \/ /\ outbox' = Delivered(t, "None")
          /\ Suspended(t, [task[t] EXCEPT !.pc = "set_last_summary_id"])
          /\ db_lock' = DbCall(db_lock, t)
          /\ UNCHANGED generating_chats
       \/ SendFailed(t)
    /\ UNCHANGED <<message, chat_state, sticker_cache, summary,
                   summary_locks, delivered>>
    /\ UNCHANGED promptVars

\* lines 113-118: set_last_summary_id answers, save_summary is called
SetLastSummaryIdReturns(t) ==
    /\ task[t].pc = "set_last_summary_id"
    /\ db_lock.holder = t
    /\ \/ /\ chat_state' = set_last_summary_id(chat_state, chat_id(t),
                                               message_id(t))
          /\ Suspended(t, [task[t] EXCEPT !.pc = "save_summary",
                                          !.sent = TRUE])
          /\ db_lock' = DbCall(Release(db_lock), t)
          /\ UNCHANGED generating_chats
       \/ /\ GenerationFailed(t)
          /\ db_lock' = Release(db_lock)
          /\ UNCHANGED chat_state
    /\ UNCHANGED <<message, sticker_cache, summary, summary_locks, outbox,
                   delivered>>
    /\ UNCHANGED promptVars

\* a save_summary call that is given the text that was sent
SummaryTextAsSent(t) == full_message(result_text(t))

\* line 124: summary_text=result.text
SummaryText(t) == result_text(t)

\* lines 118-140: save_summary answers
SaveSummaryReturns(t) ==
    /\ task[t].pc = "save_summary"
    /\ db_lock.holder = t
    /\ \/ /\ summary' = save_summary(summary, chat_id(t),
                                     task[t].last_summary_id, message_id(t),
                                     SummaryText(t))
          /\ Returned(t, task[t], "None")
          /\ generating_chats' = DiscardGenerating(generating_chats, chat_id(t))
       \/ /\ GenerationFailed(t)
          /\ UNCHANGED summary
    /\ db_lock' = Release(db_lock)
    /\ UNCHANGED <<message, chat_state, sticker_cache, summary_locks, outbox,
                   delivered>>
    /\ UNCHANGED promptVars

----------------------------------------------------------------------------
(* _describe_attachment and handle_message: src/handlers.py 143-252 *)

\* a handle_message that calls the trigger engine in place of save_message
CallEngineUnsaved(t, r, dbl) ==
    /\ Suspended(t, [r EXCEPT !.pc = "get_last_summary_id"])
    /\ db_lock' = DbCall(dbl, t)

\* lines 227-238: save_message is called, with the description found so far
CallSaveMessage(t, r, dbl) ==
    /\ Suspended(t, [r EXCEPT !.pc = "save_message"])
    /\ db_lock' = DbCall(dbl, t)

\* a router that hands every message to handle_message
MonitoredAny(c) == TRUE

\* line 205: the filter F.chat.id.in_(CHAT_IDS) of the handler
Monitored(c) == c \in CHAT_IDS

\* line 205: a message the filter does not pass; no handler runs
Filtered(t) ==
    /\ task[t].pc = "idle"
    /\ ~Monitored(chat_id(t))
    /\ delivered' = delivered + 1
    /\ UNCHANGED <<task, message, chat_state, sticker_cache, summary,
                   generating_chats, summary_locks, db_lock, outbox,
                   wide_log>>
    /\ UNCHANGED promptVars

\* lines 205-219 and 157-173: an inbound message of a monitored chat; a is
\* its content type.  Runs up to the first call that suspends.
HandleMessage(t, a) ==
    /\ task[t].pc = "idle"
    /\ delivered' = delivered + 1
    /\ Monitored(chat_id(t))
    /\ LET r == [IdleTask EXCEPT !.att = a] IN
       CASE a = "photo" ->
              /\ Suspended(t, [r EXCEPT !.pc = "download"])
              /\ UNCHANGED db_lock
         [] a \in StickerTypes ->
              /\ Suspended(t, [r EXCEPT !.pc = "get_sticker"])
              /\ db_lock' = DbCall(db_lock, t)
         [] OTHER -> CallSaveMessage(t, r, db_lock)
    /\ UNCHANGED <<message, chat_state, sticker_cache, summary,
                   generating_chats, summary_locks, outbox>>
    /\ UNCHANGED promptVars

\* get_sticker: rows[0]["description"]
CachedDescription(f) ==
    (CHOOSE r \in sticker_cache : r.file_unique_id = f).description

\* a lookup that never finds a row
get_sticker_miss(f) == NoDescription

\* src/db.py 167-176: rows[0]["description"] if rows else None
get_sticker(f) ==
    IF StickerCached(f) THEN CachedDescription(f) ELSE NoDescription

\* an except block that raises again
DescribeFailureRaised(t, dbl) ==
    /\ Raised(t, task[t])
    /\ db_lock' = dbl

\* lines 199-202: an exception of the description step is caught and
\* logged; handle_message goes on to save_message with the attachment as it
\* is
DescribeFailed(t, dbl) == CallSaveMessage(t, task[t], dbl)

\* sticker.file_unique_id of task t's sticker
file_unique_id(t) ==
    IF task[t].att = "animated_sticker" THEN ANIMATED_FILE_UNIQUE_ID
    ELSE FILE_UNIQUE_ID

\* a sticker that is taken to have a thumbnail always
ThumbnailAssumed(t) == FALSE

\* lines 178-179: (is_animated or is_video) and not sticker.thumbnail
NoThumbnail(t) == task[t].att = "animated_sticker"

\* lines 173-185: the cache lookup answers
GetStickerReturns(t) ==
    LET cached == get_sticker(file_unique_id(t)) IN
    /\ task[t].pc = "get_sticker"
    /\ db_lock.holder = t
    /\ \/ /\ cached # NoDescription
          /\ CallSaveMessage(t, [task[t] EXCEPT !.desc = cached],
                             Release(db_lock))
       \/ /\ cached = NoDescription
          /\ NoThumbnail(t)
          \* lines 180-181: logged, _describe_attachment returns
          /\ CallSaveMessage(t, task[t], Release(db_lock))
       \/ /\ cached = NoDescription
          /\ ~NoThumbnail(t)
          /\ Suspended(t, [task[t] EXCEPT !.pc = "download"])
          /\ db_lock' = Release(db_lock)
       \/ DescribeFailed(t, Release(db_lock))
    /\ UNCHANGED <<message, chat_state, sticker_cache, summary,
                   generating_chats, summary_locks, outbox, delivered>>
    /\ UNCHANGED promptVars

\* lines 143-149, 165, 185: bot.get_file and bot.download_file answer
DownloadReturns(t) ==
    /\ task[t].pc = "download"
    /\ \/ /\ Suspended(t, [task[t] EXCEPT !.pc = "describe"])
          /\ UNCHANGED db_lock
       \/ DescribeFailed(t, db_lock)
    /\ UNCHANGED <<message, chat_state, sticker_cache, summary,
                   generating_chats, summary_locks, outbox, delivered>>
    /\ UNCHANGED promptVars

\* lines 166-168, 186-189: describe_image / describe_sticker answers
DescribeReturns(t) ==
    LET r == [task[t] EXCEPT !.desc = described(t)] IN
    /\ task[t].pc = "describe"
    /\ \/ /\ task[t].att = "sticker"
          /\ Suspended(t, [r EXCEPT !.pc = "save_sticker"])
          /\ db_lock' = DbCall(db_lock, t)
       \/ /\ task[t].att # "sticker"
          /\ CallSaveMessage(t, r, db_lock)
       \/ DescribeFailed(t, db_lock)
    /\ UNCHANGED <<message, chat_state, sticker_cache, summary,
                   generating_chats, summary_locks, outbox, delivered>>
    /\ UNCHANGED promptVars

\* save_sticker: db.create("sticker_cache", ...)
save_sticker(rows, f, d) ==
    rows \cup {[file_unique_id |-> f, description |-> d]}

\* lines 189 and 199-202: save_sticker answers; raised (the unique index
\* rejects a second row for the id) is caught at line 199
SaveStickerReturns(t) ==
    /\ task[t].pc = "save_sticker"
    /\ db_lock.holder = t
    /\ \/ /\ ~StickerCached(file_unique_id(t))
          /\ sticker_cache' = save_sticker(sticker_cache, file_unique_id(t),
                                           task[t].desc)
       \/ UNCHANGED sticker_cache
    /\ CallSaveMessage(t, task[t], Release(db_lock))
    /\ UNCHANGED <<message, chat_state, summary,
                   generating_chats, summary_locks, outbox, delivered>>
    /\ UNCHANGED promptVars

\* save_message: db.create("message", record)
save_message(rows, c, m, d) ==
    rows \cup {[chat_id |-> c, message_id |-> m, description |-> d]}

\* lines 228-246: save_message answers; then maybe_generate_summary is called
SaveMessageReturns(t) ==
    /\ task[t].pc = "save_message"
    /\ db_lock.holder = t
    /\ \/ /\ ~MessageExists(chat_id(t), message_id(t))
          /\ message' = save_message(message, chat_id(t), message_id(t),
                                     task[t].desc)
          /\ maybe_generate_summary(t, Release(db_lock))
       \/ \* raised (the unique index rejects a second (chat_id, message_id))
          /\ Raised(t, task[t])
          /\ db_lock' = Release(db_lock)
          /\ UNCHANGED <<message, summary_locks>>
    /\ UNCHANGED <<chat_state, sticker_cache, summary, generating_chats,
                   outbox, delivered>>
    /\ UNCHANGED promptVars

----------------------------------------------------------------------------
(* The prompt: src/llm.py 40-144.  A string is the sequence of its lines   *)
(* and a line the sequence of the pieces it is concatenated from.          *)

\* the longest message list given to generate_full_prompt
MaxWindow == 2

NoAttachment == [type |-> "none", emoji |-> "", description |-> <<>>]

\* msg_data: the messages a window may hold.  text and description are
\* sequences of lines, <<>> the empty string; reply_to_message_id 0 and
\* forward_sender_name "" are None; a forwarded message here is a reply too.
PromptMessages ==
    {msg_data \in
         [message_id : {101, 102},
          sender_name : {"Ann"},
          text : {<<>>, <<"hi", "there">>},
          reply_to_message_id : {0, 100},
          forward_sender_name : {"", "Bob"},
          attachment : {NoAttachment,
                        [type |-> "photo", emoji |-> "",
                         description |-> <<"a cat", "on a mat">>],
                        [type |-> "sticker", emoji |-> ":)",
                         description |-> <<>>]}] :
       msg_data.forward_sender_name # "" => msg_data.reply_to_message_id # 0}

PromptWindows == UNION {[1..n -> PromptMessages] : n \in 0..MaxWindow}

DigitChar == <<"0", "1", "2", "3", "4", "5", "6", "7", "8", "9">>

\* f"{n}" for n >= 0: the decimal digits
RECURSIVE Decimal(_)
Decimal(n) ==
    IF n < 10 THEN <<DigitChar[n + 1]>>
    ELSE Decimal(n \div 10) \o <<DigitChar[(n % 10) + 1]>>

\* sep.join(parts), each part a sequence
RECURSIVE Joined(_, _)
Joined(parts, sep) ==
    IF parts = <<>> THEN <<>>
    ELSE IF Len(parts) = 1 THEN parts[1]
    ELSE parts[1] \o sep \o Joined(Tail(parts), sep)

\* line 40-41: two spaces before every line
_indent(text) == [i \in 1..Len(text) |-> <<"  ", text[i]>>]

\* lines 44-100, for the types of PromptMessages: None, or the block's lines
_format_attachment_block(attachment, description) ==
    CASE attachment.type = "photo" ->
           IF description # <<>>
           THEN <<<<"<photo>">>>> \o _indent(description) \o <<<<"</photo>">>>>
           ELSE <<<<"<photo />">>>>
      [] attachment.type = "sticker" ->
           IF description # <<>>
           THEN <<<<"<sticker>">>>> \o _indent(description)
                    \o <<<<"</sticker>">>>>
           ELSE IF attachment.emoji # ""
           THEN <<<<"<sticker>", attachment.emoji, "</sticker>">>>>
           ELSE <<<<"<sticker />">>>>
      [] OTHER -> <<>>

\* lines 118-125: the labels and labels_str
labels(msg_data) ==
    (IF msg_data.reply_to_message_id # 0
     THEN <<<<"reply to ">> \o Decimal(msg_data.reply_to_message_id)>>
     ELSE <<>>)
    \o (IF msg_data.forward_sender_name # ""
        THEN <<<<"forward from ", msg_data.forward_sender_name>>>>
        ELSE <<>>)

labels_str(msg_data) ==
    IF labels(msg_data) = <<>> THEN <<>>
    ELSE <<" [">> \o Joined(labels(msg_data), <<", ">>) \o <<"]">>

\* line 128: f"### {msg_id} {name}{labels_str}"
header(msg_data) ==
    <<"### ">> \o Decimal(msg_data.message_id)
        \o <<" ", msg_data.sender_name>> \o labels_str(msg_data)

\* lines 110-138: the header, the text if any, the attachment block if any
format_message_for_prompt(msg_data) ==
    <<header(msg_data)>>
        \o (IF msg_data.text # <<>> THEN _indent(msg_data.text) ELSE <<>>)
        \o _format_attachment_block(msg_data.attachment,
                                    msg_data.attachment.description)

\* a generate_full_prompt that numbers its calls
generate_full_prompt_numbered(messages) ==
    <<<<"SUMMARIZATION_PROMPT">> \o Decimal(Len(prompts))>>

\* lines 141-144: the instruction, a blank line, and the messages, joined
\* by blank lines, between <messages> and </messages>
generate_full_prompt(messages) ==
    LET parts == [i \in 1..Len(messages) |->
                     format_message_for_prompt(messages[i])]
        messages_text == IF parts = <<>> THEN <<<<>>>>
                         ELSE Joined(parts, <<<<>>>>)
    IN  <<<<"SUMMARIZATION_PROMPT">>, <<>>, <<"<messages>">>>>
            \o messages_text \o <<<<"</messages>">>>>

\* generate_summary is given its messages, once
ChooseWindow ==
    /\ prompt_window = <<>>
    /\ prompts = <<>>
    /\ \E w \in PromptWindows : prompt_window' = w
    /\ prompts' = <<>>
    /\ UNCHANGED <<task, message, chat_state, sticker_cache, summary,
                   generating_chats, summary_locks, db_lock, outbox,
                   delivered, wide_log>>

\* generate_full_prompt is called on the window, at most twice
Render ==
    /\ Len(prompts) < 2
    /\ prompts' = Append(prompts, generate_full_prompt(prompt_window))
    /\ UNCHANGED <<task, message, chat_state, sticker_cache, summary,
                   generating_chats, summary_locks, db_lock, outbox,
                   delivered, wide_log, prompt_window>>

----------------------------------------------------------------------------
(* Specifications *)

\* handlers.py 52-140: the steps of a call of maybe_generate_summary after
\* its first suspension
Generation(t) ==
    \/ SummaryLockAcquired(t)
    \/ GetLastSummaryIdReturns(t)
    \/ SetFirstRunReturns(t)
    \/ GetMessagesReturns(t)
    \/ GenerateSummaryReturns(t)
    \/ SendHtmlReturns(t)
    \/ SendPlainReturns(t)
    \/ SetLastSummaryIdReturns(t)
    \/ SaveSummaryReturns(t)

\* the trigger engine's steps, from the save that precedes the call
Engine(t) ==
    \/ SaveMessageReturns(t)
    \/ Generation(t)

\* the description steps
Describe(t) ==
    \/ GetStickerReturns(t)
    \/ DownloadReturns(t)
    \/ DescribeReturns(t)
    \/ SaveStickerReturns(t)

\* the bounds on the gateway: n messages in all, k handlers at once
Budget(n, k) == delivered < n /\ Cardinality(Active) < k

TasksOf(c) == {t \in Tasks : chat_id(t) = c}

\* text messages in one chat
Next ==
    \E t \in TasksOf("chat_b") :
        \/ Budget(MaxDelivered, MaxActive) /\ HandleMessage(t, "none")
        \/ Engine(t)

Spec == Start({"chat_b"}) /\ [][Next]_vars

\* messages of every content type in one chat, up to its first summary
NextIngest ==
    \E t \in {x \in TasksOf("chat_b") :
                 message_id(x) <= interval("chat_b") + 1} :
        \/ /\ Budget(MaxIngested, MaxIngesting)
           /\ \E a \in AttachmentTypes : HandleMessage(t, a)
        \/ Describe(t)
        \/ Engine(t)

SpecIngest == Start({"chat_b"}) /\ [][NextIngest]_vars

\* sticker messages in one chat, up to its first summary
NextSticker ==
    \E t \in {x \in TasksOf("chat_b") :
                 message_id(x) <= interval("chat_b") + 1} :
        \/ /\ Budget(MaxIngested, MaxIngesting)
           /\ \E a \in StickerTypes : HandleMessage(t, a)
        \/ Describe(t)
        \/ Engine(t)

SpecSticker == Start({"chat_b"}) /\ [][NextSticker]_vars

\* asyncio runs every task that is ready, and every external call returns or
\* raises: a step of a task that can be taken is taken
NextFair ==
    \E t \in TasksOf("chat_b") :
        \/ Budget(MaxIngested, MaxIngesting) /\ HandleMessage(t, "none")
        \/ Engine(t)

FairSpec ==
    /\ Start({"chat_b"})
    /\ [][NextFair]_vars
    /\ \A t \in TasksOf("chat_b") : WF_vars(Engine(t))

\* handlers.py 52-73: maybe_generate_summary called on its own, for a
\* message id the caller has not saved
OnMessage(t) ==
    /\ task[t].pc = "idle"
    /\ delivered' = delivered + 1
    /\ chat_id(t) \in CHAT_IDS
    /\ maybe_generate_summary(t, db_lock)
    /\ UNCHANGED <<message, chat_state, sticker_cache, summary,
                   generating_chats, outbox>>
    /\ UNCHANGED promptVars

\* one chat whose messages pass through handle_message or reach
\* maybe_generate_summary directly
NextOnMessage ==
    \E t \in TasksOf("chat_b") :
        \/ Budget(MaxIngested, MaxIngesting) /\ HandleMessage(t, "none")
        \/ Budget(MaxIngested, MaxIngesting) /\ OnMessage(t)
        \/ Engine(t)

SpecOnMessage == Start({"chat_b"}) /\ [][NextOnMessage]_vars

\* a monitored chat and one the configuration does not list
NextRouter ==
    \E t \in TasksOf("chat_b") \cup TasksOf("chat_c") :
        \/ Budget(MaxIngested, MaxIngesting) /\ HandleMessage(t, "none")
        \/ Budget(MaxIngested, MaxIngesting) /\ Filtered(t)
        \/ Engine(t)

SpecRouter == Start({"chat_b"}) /\ [][NextRouter]_vars

\* text messages in the two monitored chats, each with a watermark, around
\* the end of each chat's first interval
NextChats ==
    \E t \in {x \in TasksOf("chat_a") \cup TasksOf("chat_b") :
                 message_id(x) \in {2, interval(chat_id(x)) + 1}} :
        \/ Budget(MaxIngested, MaxIngesting) /\ HandleMessage(t, "none")
        \/ Engine(t)

SpecChats == Init /\ [][NextChats]_vars

\* the messages of the two chats under asyncio's scheduling (a step of a
\* task that can be taken is taken, every external call returning or
\* raising)
FairTasks ==
    {<<"chat_a", interval("chat_a") + 1>>, <<"chat_b", 2>>,
     <<"chat_b", interval("chat_b") + 1>>}

\* a sticker in one chat, and the message that ends the first interval in
\* each of the two chats
NextFairChats ==
    \E t \in FairTasks :
        \/ /\ Budget(MaxIngested, MaxIngesting)
           /\ HandleMessage(t, IF message_id(t) = 2 THEN "sticker" ELSE "none")
        \/ Describe(t)
        \/ Engine(t)

FairChats ==
    /\ Init
    /\ [][NextFairChats]_vars
    /\ \A t \in FairTasks : WF_vars(Describe(t) \/ Engine(t))

\* the prompt assembler on every window of PromptWindows
NextPrompt ==
    \/ ChooseWindow
    \/ Render

SpecPrompt == Start({}) /\ [][NextPrompt]_vars

----------------------------------------------------------------------------
(* Properties *)

\* lines 91-140: the task has set the generating flag and not yet cleared it
InGeneration(t) ==
    task[t].pc \in {"get_messages", "generate_summary", "send_html",
                    "send_plain", "set_last_summary_id", "save_summary"}

\* the step is a segment of task t
StepOf(t) == task'[t] # task[t]

\* task t returns to its caller in this step, which logs the result
ReturnOf(t) == StepOf(t) /\ task'[t].pc = "idle" /\ wide_log'.request_id = t

\* in this step an exception leaves task t's call and reaches handle_message
RaisedIn(t) == ReturnOf(t) /\ wide_log'.error

\* in this step task t's generation ends in its except block (lines 132-135)
FailedIn(t) == ReturnOf(t) /\ wide_log'.reason = "error"

\* C1: single-flight.  For every chat at most one invocation of
\* maybe_generate_summary is between setting and clearing the generating
\* flag, and the flag is set exactly while one is.
SingleFlight ==
    \A c \in CHAT_IDS :
        /\ Cardinality({t \in TasksOf(c) : InGeneration(t)}) <= 1
        /\ c \in generating_chats <=> \E t \in TasksOf(c) : InGeneration(t)

\* a generation is in flight while another handler of the chat, which
\* queued for the chat's lock before the flag was set, has been handed it
SingleFlightWitness ==
    \E t, u \in Tasks :
        /\ chat_id(t) = chat_id(u)
        /\ InGeneration(t)
        /\ task[u].pc = "summary_lock"
        /\ summary_locks[chat_id(u)].holder = u

\* C2: a chat's stored last_summary_message_id never decreases, and a
\* watermark row, once written, stays.
WatermarkNonDecreasing ==
    [][\A c \in CHAT_IDS :
           HasWatermark(c) =>
               /\ HasWatermark(c)'
               /\ Watermark(c)' >= Watermark(c)]_vars

\* after a summary has moved the watermark, a message with a smaller id
\* arrives and is evaluated
WatermarkNonDecreasingWitness ==
    \E t \in Tasks :
        /\ task[t].pc = "get_last_summary_id"
        /\ HasWatermark(chat_id(t))
        /\ message_id(t) < Watermark(chat_id(t))
        /\ \E i \in 1..Len(summary) : summary[i].chat_id = chat_id(t)

\* C3: the ranges (from_message_id, to_message_id] of two Summary records
\* of a chat are disjoint: the later record starts at or after the end of
\* the earlier one.
SummaryRangesDisjoint ==
    \A i, j \in 1..Len(summary) :
        i < j /\ summary[i].chat_id = summary[j].chat_id =>
            summary[j].from_message_id >= summary[i].to_message_id

\* a chat has been summarized twice
SummaryRangesDisjointWitness ==
    \E i, j \in 1..Len(summary) :
        i < j /\ summary[i].chat_id = summary[j].chat_id

\* C4: a call that finds the message at least interval beyond the chat's
\* watermark starts a generation, and only such a call does; the generation
\* is the only one of its chat; it sends one summary for its message, and
\* when it completes the stored watermark is the id of the triggering
\* message and one Summary record for the window has been added.
TriggerFiresOnce ==
    /\ [](\A t \in Tasks :
             InGeneration(t) =>
                 /\ message_id(t) - task[t].last_summary_id
                        >= interval(chat_id(t))
                 /\ \A u \in TasksOf(chat_id(t)) : InGeneration(u) => u = t
                 /\ task[t].pc = "save_summary" =>
                        /\ HasWatermark(chat_id(t))
                        /\ Watermark(chat_id(t)) = message_id(t)
                        /\ Cardinality({o \in outbox :
                                          /\ o.chat_id = chat_id(t)
                                          /\ o.to_message_id = message_id(t)})
                               = 1)
    /\ [][\A t \in Tasks :
             /\ /\ task[t].pc = "get_last_summary_id"
                /\ StepOf(t)
                /\ HasWatermark(chat_id(t))
                /\ message_id(t) - Watermark(chat_id(t))
                       >= interval(chat_id(t))
                /\ ~RaisedIn(t)
                => /\ chat_id(t) \notin generating_chats
                   /\ chat_id(t) \in generating_chats'
                   /\ task'[t].pc = "get_messages"
                   /\ task'[t].last_summary_id = Watermark(chat_id(t))
             /\ /\ task[t].pc = "save_summary"
                /\ StepOf(t)
                /\ ~FailedIn(t)
                => /\ ReturnOf(t)
                   /\ wide_log'.reason = "None" /\ wide_log'.sent
                   /\ chat_id(t) \notin generating_chats'
                   /\ Watermark(chat_id(t))' = message_id(t)
                   /\ Len(summary') = Len(summary) + 1
                   /\ summary'[Len(summary')] =
                          [chat_id |-> chat_id(t),
                           from_message_id |-> task[t].last_summary_id,
                           to_message_id |-> message_id(t),
                           summary_text |-> result_text(t)]]_vars

\* the message exactly interval beyond the watermark has triggered, its
\* summary is sent and its watermark write is done, while another message
\* of the chat is being handled
TriggerFiresOnceWitness ==
    \E t, u \in Tasks :
        /\ t # u
        /\ chat_id(t) = chat_id(u)
        /\ task[t].pc = "save_summary"
        /\ message_id(t) - task[t].last_summary_id = interval(chat_id(t))
        /\ task[u].pc # "idle"

\* C5: a call of maybe_generate_summary that arrives (its message just
\* saved) while a generation of its chat is in flight returns
\* already_generating at once: no watermark, flag, lock, Summary or send
\* changes, nothing is attempted, and no other task moves.
AlreadyGeneratingInert ==
    [][\A t \in Tasks :
           /\ task[t].pc = "save_message"
           /\ StepOf(t)
           /\ message' # message
           /\ chat_id(t) \in generating_chats
           => /\ ReturnOf(t)
              /\ wide_log'.reason = "already_generating"
              /\ ~wide_log'.attempted /\ ~wide_log'.sent /\ ~wide_log'.error
              /\ UNCHANGED <<chat_state, generating_chats, summary_locks,
                             summary, outbox, sticker_cache>>
              /\ \A u \in Tasks \ {t} : task'[u] = task[u]]_vars

\* during one generation a call has returned already_generating and
\* another handler of the chat is about to make the next such call
AlreadyGeneratingInertWitness ==
    \E g, t, u \in Tasks :
        /\ chat_id(g) = chat_id(t) /\ chat_id(g) = chat_id(u)
        /\ t # g /\ u # g
        /\ InGeneration(g)
        /\ wide_log.request_id = t
        /\ wide_log.reason = "already_generating"
        /\ task[u].pc = "save_message"

\* C6: a generation that ends with reason error has cleared the generating
\* flag and leaves the chat's watermark at the value it read before it
\* started.
GenerationFailureKeepsWatermark ==
    [][\A t \in Tasks :
           /\ InGeneration(t)
           /\ FailedIn(t)
           => /\ chat_id(t) \notin generating_chats'
              /\ HasWatermark(chat_id(t))'
              /\ Watermark(chat_id(t))' = task[t].last_summary_id]_vars

\* the task is making the first-run watermark write (lines 77-81)
InFirstRun(t) == task[t].pc = "set_first_run"

\* C7: while a call handles the first message of a chat, the chat has no
\* watermark row and its generating flag is not set; when its write is done
\* the watermark is the message's id, the call returns first_run with
\* nothing attempted or sent, and no Summary record, send or flag change
\* has been made.
FirstRunSetsWatermark ==
    /\ [](\A t \in Tasks :
             InFirstRun(t) => /\ ~HasWatermark(chat_id(t))
                              /\ chat_id(t) \notin generating_chats
                              /\ ~task[t].attempted)
    /\ [][\A t \in Tasks :
             InFirstRun(t) /\ StepOf(t) /\ ~RaisedIn(t)
             => /\ ReturnOf(t)
                /\ wide_log'.reason = "first_run"
                /\ ~wide_log'.attempted /\ ~wide_log'.sent
                /\ HasWatermark(chat_id(t))'
                /\ Watermark(chat_id(t))' = message_id(t)
                /\ UNCHANGED <<summary, outbox, generating_chats,
                               sticker_cache, message>>]_vars

\* the first message of a chat has returned first_run and its id, not the
\* smallest one, is the watermark, while a second message is being handled
FirstRunSetsWatermarkWitness ==
    \E t, u \in Tasks :
        /\ wide_log.request_id = t
        /\ wide_log.reason = "first_run"
        /\ message_id(t) > 1
        /\ HasWatermark(chat_id(t))
        /\ Watermark(chat_id(t)) = message_id(t)
        /\ chat_id(u) = chat_id(t)
        /\ task[u].pc = "get_last_summary_id"
        /\ summary = <<>> /\ outbox = {}

\* C8: a generating flag that is set is eventually cleared.
GeneratingEventuallyCleared ==
    \A c \in CHAT_IDS : (c \in generating_chats) ~> (c \notin generating_chats)

\* a generation that failed after its summary was sent has cleared the flag
GeneratingEventuallyClearedWitness ==
    /\ wide_log.reason = "error"
    /\ wide_log.attempted
    /\ wide_log.request_id # NoTask
    /\ chat_id(wide_log.request_id) \notin generating_chats
    /\ \E o \in outbox : o.to_message_id = message_id(wide_log.request_id)

\* C9: a generation whose fetched window (watermark, message_id] is empty
\* returns no_messages with the generating flag cleared, and changes
\* neither the watermark nor the Summary records nor what has been sent.
EmptyWindowNoMessages ==
    [][\A t \in Tasks :
           /\ task[t].pc = "get_messages"
           /\ StepOf(t)
           /\ ~\E r \in message : /\ r.chat_id = chat_id(t)
                                   /\ r.message_id > task[t].last_summary_id
                                   /\ r.message_id <= message_id(t)
           /\ ~FailedIn(t)
           => /\ ReturnOf(t)
              /\ wide_log'.reason = "no_messages"
              /\ ~wide_log'.sent
              /\ chat_id(t) \notin generating_chats'
              /\ Watermark(chat_id(t))' = task[t].last_summary_id
              /\ UNCHANGED <<chat_state, summary, outbox, message,
                             sticker_cache>>]_vars

\* a call has returned no_messages in a chat that also has a summary
EmptyWindowNoMessagesWitness ==
    /\ wide_log.reason = "no_messages"
    /\ wide_log.attempted
    /\ chat_id(wide_log.request_id) \notin generating_chats
    /\ summary # <<>>

\* C10: a call that finds a watermark with message_id - watermark below the
\* chat's interval returns interval_not_reached; watermark, generating
\* flag, Summary records, sticker cache, stored messages and sends are as
\* they were, and nothing is attempted.
IntervalNotReachedInert ==
    [][\A t \in Tasks :
           /\ task[t].pc = "get_last_summary_id"
           /\ StepOf(t)
           /\ HasWatermark(chat_id(t))
           /\ message_id(t) - Watermark(chat_id(t)) < interval(chat_id(t))
           /\ ~RaisedIn(t)
           => /\ ReturnOf(t)
              /\ wide_log'.reason = "interval_not_reached"
              /\ ~wide_log'.attempted /\ ~wide_log'.sent
              /\ UNCHANGED <<chat_state, generating_chats, summary,
                             sticker_cache, outbox, message>>]_vars

\* a call has returned interval_not_reached one id short of the interval,
\* in a run that has filled the sticker cache
IntervalNotReachedInertWitness ==
    /\ wide_log.reason = "interval_not_reached"
    /\ message_id(wide_log.request_id) - wide_log.last_summary_id
           = interval(chat_id(wide_log.request_id)) - 1
    /\ sticker_cache # {}

\* a summary for task t's message has been sent
SentFor(t) ==
    \E o \in outbox : /\ o.chat_id = chat_id(t)
                      /\ o.to_message_id = message_id(t)

\* C11: in a generation the model call precedes the send, the plain-text
\* send is made only after the HTML send was rejected, the watermark is
\* written only after a send has succeeded and the Summary record only
\* after the watermark; a generation whose two sends both fail ends with
\* neither written.
SendBeforePersist ==
    /\ [](\A t \in Tasks :
             /\ task[t].pc \in {"set_last_summary_id", "save_summary"}
                => SentFor(t)
             /\ task[t].pc = "save_summary"
                => Watermark(chat_id(t)) = message_id(t)
             /\ task[t].pc \in {"generate_summary", "send_html", "send_plain",
                                 "set_last_summary_id"}
                => /\ ~task[t].sent
                   /\ Watermark(chat_id(t)) = task[t].last_summary_id
                   /\ \A i \in 1..Len(summary) :
                          summary[i].chat_id = chat_id(t)
                          => summary[i].to_message_id # message_id(t))
    /\ [][\A t \in Tasks :
             StepOf(t) /\ InGeneration(t) =>
                 /\ task'[t].pc = "send_html" => task[t].pc = "generate_summary"
                 /\ task'[t].pc = "send_plain"
                    => task[t].pc = "send_html" /\ outbox' = outbox
                 /\ outbox' # outbox
                    => /\ task[t].pc \in {"send_html", "send_plain"}
                       /\ task'[t].pc = "set_last_summary_id"
                 /\ task'[t].pc = "set_last_summary_id" => outbox' # outbox
                 /\ chat_state' # chat_state
                    => /\ task[t].pc = "set_last_summary_id"
                       /\ task'[t].pc = "save_summary"
                 /\ summary' # summary => task[t].pc = "save_summary"
                 /\ task[t].pc = "send_plain" /\ outbox' = outbox
                    => /\ FailedIn(t)
                       /\ ~wide_log'.sent
                       /\ UNCHANGED <<chat_state, summary>>]_vars

\* the HTML send was rejected and the plain-text send is under way, with
\* the watermark and the Summary records as the generation found them,
\* after an earlier generation of the chat has gone through all four steps
SendBeforePersistWitness ==
    \E t \in Tasks :
        /\ task[t].pc = "send_plain"
        /\ Watermark(chat_id(t)) = task[t].last_summary_id
        /\ ~SentFor(t)
        /\ \E i \in 1..Len(summary) :
               /\ summary[i].chat_id = chat_id(t)
               /\ summary[i].to_message_id = task[t].last_summary_id

\* the Summary record and the send of the same generation
SentAs(s, o) ==
    /\ o.chat_id = s.chat_id
    /\ o.from_message_id = s.from_message_id
    /\ o.to_message_id = s.to_message_id

\* C12: every Summary record holds the text the model returned for its
\* window, whichever send variant delivered the summary, and is written
\* with the watermark advanced to its to_message_id; the text that was
\* sent is the truncated, tag-fixed one.
PlainFallbackPersists ==
    /\ [](\A i \in 1..Len(summary) :
             LET s == summary[i]
                 t == <<s.chat_id, s.to_message_id>>
             IN  /\ s.summary_text = result_text(t)
                 /\ \E o \in outbox : SentAs(s, o)
                 /\ \A o \in outbox :
                        SentAs(s, o) => o.text = full_message(result_text(t))
                 /\ Watermark(s.chat_id) >= s.to_message_id)
    /\ [][\A t \in Tasks :
             /\ task[t].pc = "send_plain"
             /\ StepOf(t)
             /\ outbox' # outbox
             => /\ task'[t].pc = "set_last_summary_id"
                /\ \E o \in outbox' \ outbox : o.parse_mode = "None"]_vars

\* a Summary record whose summary went out as plain text, and whose stored
\* text is not the text that was sent
PlainFallbackPersistsWitness ==
    \E i \in 1..Len(summary) : \E o \in outbox :
        /\ SentAs(summary[i], o)
        /\ o.parse_mode = "None"
        /\ ~\E h \in outbox : SentAs(summary[i], h) /\ h.parse_mode = "HTML"
        /\ o.text # summary[i].summary_text
        /\ Watermark(summary[i].chat_id) = summary[i].to_message_id

\* the task is in _describe_attachment (lines 157-202)
InDescribe(t) ==
    task[t].pc \in {"get_sticker", "download", "describe", "save_sticker"}

DescribeNeverFailsIngestion ==
    [][\A t \in Tasks :
           /\ InDescribe(t) /\ StepOf(t)
              => /\ InDescribe(t)' \/ task'[t].pc = "save_message"
                 /\ task'[t].att = task[t].att
                 /\ UNCHANGED <<wide_log, message>>
           /\ task[t].pc = "save_message" /\ StepOf(t) /\ ~RaisedIn(t)
              => /\ \E r \in message' \ message :
                        /\ r.chat_id = chat_id(t)
                        /\ r.message_id = message_id(t)
                        /\ r.description = task[t].desc
                 /\ \/ task'[t].pc \in {"summary_lock", "get_last_summary_id"}
                    \/ /\ ReturnOf(t)
                       /\ wide_log'.reason = "already_generating"]_vars

\* a photo whose description failed has been saved without a description
\* and its handler is in the trigger engine
DescribeNeverFailsIngestionWitness ==
    \E t \in Tasks :
        /\ task[t].att = "photo"
        /\ task[t].desc = NoDescription
        /\ task[t].pc = "get_last_summary_id"
        /\ \E r \in message : /\ r.chat_id = chat_id(t)
                               /\ r.message_id = message_id(t)
                               /\ r.description = NoDescription

\* C15: a voice message whose handler meets no failure is saved with the
\* transcription as its description.
VoiceDescribedBeforeSave ==
    [][\A t \in Tasks :
           /\ task[t].att = "voice"
           /\ task[t].pc = "save_message"
           /\ StepOf(t)
           /\ message' # message
           => \E r \in message' \ message :
                  /\ r.message_id = message_id(t)
                  /\ r.description # NoDescription]_vars

\* C16: for a chat that SUMMARY_INTERVALS does not list no handler ever
\* runs: no message of it is stored, it has no watermark row, lock or
\* generating flag, and no summary of it is sent or recorded.
UnmonitoredChatUntouched ==
    \A c \in Chats \ DOMAIN SUMMARY_INTERVALS :
        /\ \A t \in TasksOf(c) : task[t] = IdleTask
        /\ ~\E r \in message : r.chat_id = c
        /\ ~HasWatermark(c)
        /\ c \notin generating_chats
        /\ c \notin DOMAIN summary_locks
        /\ ~\E o \in outbox : o.chat_id = c
        /\ ~\E i \in 1..Len(summary) : summary[i].chat_id = c
        /\ wide_log.request_id # NoTask => chat_id(wide_log.request_id) # c

\* the gateway has dispatched messages and every one of them was of the
\* unlisted chat: no handler is running and none has finished
UnmonitoredChatUntouchedWitness ==
    /\ delivered >= 2
    /\ Active = {}
    /\ wide_log = NoRecord

\* the rendering of the window's i-th message, as the prompt holds it: the
\* lines after the three opening lines and the earlier messages, each
\* followed by one blank line
RenderedAt(prompt, i) ==
    LET before == [j \in 1..(i - 1) |->
                      Len(format_message_for_prompt(prompt_window[j])) + 1]
        RECURSIVE Sum(_)
        Sum(q) == IF q = <<>> THEN 0 ELSE Head(q) + Sum(Tail(q))
        first == 3 + Sum(before) + 1
    IN  SubSeq(prompt, first,
               first + Len(format_message_for_prompt(prompt_window[i])) - 1)

\* C17: in a rendered prompt every message is its header line, then its
\* attachment block if it has one, then its text indented by two spaces
\* per line, the text left out when it is empty.
AttachmentBlockBeforeText ==
    \A k \in 1..Len(prompts) : \A i \in 1..Len(prompt_window) :
        LET msg_data == prompt_window[i] IN
        RenderedAt(prompts[k], i) =
            <<header(msg_data)>>
                \o _format_attachment_block(msg_data.attachment,
                                            msg_data.attachment.description)
                \o (IF msg_data.text # <<>> THEN _indent(msg_data.text)
                    ELSE <<>>)

\* the header lines of a prompt, in the order they occur
HeaderLines(prompt) ==
    SelectSeq(prompt, LAMBDA line : line # <<>> /\ Head(line) = "### ")

StoredBetween(c, lo, hi) ==
    {r.message_id : r \in {x \in message : /\ x.chat_id = c
                                           /\ lo < x.message_id
                                           /\ x.message_id <= hi}}

\* C19: with watermark w read under the lock of an idle chat whose
\* interval is k, message m goes on to a generation, the flag set and w
\* kept as its window start, if m - w >= k, and returns
\* interval_not_reached if m - w < k; no generation starts otherwise.  The
\* window fetched is the stored messages with w < message_id <= m in
\* ascending order, and the watermark written after the send is m.
IntervalTriggersWindow ==
    [][\A t \in Tasks :
          LET c == chat_id(t)
              m == message_id(t)
          IN
          /\ ( /\ task[t].pc = "get_last_summary_id"
               /\ StepOf(t)
               /\ ~RaisedIn(t)
               /\ HasWatermark(c) )
             => /\ c \notin generating_chats
                /\ IF m - Watermark(c) >= interval(c)
                   THEN /\ task'[t].pc = "get_messages"
                        /\ task'[t].last_summary_id = Watermark(c)
                        /\ c \in generating_chats'
                   ELSE /\ ReturnOf(t)
                        /\ wide_log'.reason = "interval_not_reached"
                        /\ c \notin generating_chats'
          /\ (task[t].pc # "get_messages" /\ task'[t].pc = "get_messages")
             => /\ task[t].pc = "get_last_summary_id"
                /\ HasWatermark(c)
                /\ m - Watermark(c) >= interval(c)
          /\ (task[t].pc = "get_messages" /\ task'[t].pc = "generate_summary")
             => LET window == task'[t].window
                    w == task[t].last_summary_id
                IN  /\ {window[i] : i \in 1..Len(window)}
                           = StoredBetween(c, w, m)
                    /\ Len(window) = Cardinality(StoredBetween(c, w, m))
                    /\ \A i, j \in 1..Len(window) :
                           i < j => window[i] < window[j]
          /\ ( /\ task[t].pc = "set_last_summary_id"
               /\ StepOf(t)
               /\ ~FailedIn(t) )
             => Watermark(c)' = m
      ]_vars

\* a message exactly one interval after the watermark has fetched a window
\* of two messages, the message at the watermark is stored, and the last
\* call returned interval_not_reached
IntervalTriggersWindowWitness ==
    \E t \in Tasks :
        /\ task[t].pc = "generate_summary"
        /\ message_id(t) - task[t].last_summary_id = interval(chat_id(t))
        /\ Len(task[t].window) = 2
        /\ \E r \in message : /\ r.chat_id = chat_id(t)
                               /\ r.message_id = task[t].last_summary_id
        /\ wide_log.reason = "interval_not_reached"

\* the last record logged is that of a generation that ended with reason
\* error or no_messages in chat c
FailureLogged(c) ==
    /\ wide_log.request_id # NoTask
    /\ chat_id(wide_log.request_id) = c
    /\ wide_log.attempted
    /\ wide_log.reason \in {"error", "no_messages"}

\* the watermark a logged generation left: its message where the summary
\* was sent and the watermark written, the window start it read otherwise
WatermarkLogged ==
    IF wide_log.sent THEN message_id(wide_log.request_id)
    ELSE wide_log.last_summary_id

\* C20: a generation that ends with reason error or no_messages is over:
\* its handler has returned, the flag is cleared, the watermark w stays,
\* and a handler runs only for a message the gateway dispatches and a
\* generation starts only from the interval check.  The next message m'
\* of the chat that reaches the interval check starts a generation with
\* window start w if m' - w >= interval and returns interval_not_reached
\* otherwise.
FailedGenerationAwaitsNextMessage ==
    [][\A t \in Tasks :
          LET c == chat_id(t)
              m == message_id(t)
          IN
          /\ ( /\ InGeneration(t)
               /\ task[t].pc # "get_last_summary_id"
               /\ ReturnOf(t)
               /\ wide_log'.reason \in {"error", "no_messages"} )
             => /\ task'[t] = IdleTask
                /\ c \notin generating_chats'
                /\ FailureLogged(c)'
                /\ Watermark(c)' = WatermarkLogged'
          /\ (task[t].pc = "idle" /\ StepOf(t)) => delivered' = delivered + 1
          /\ (task[t].pc # "get_messages" /\ task'[t].pc = "get_messages")
             => task[t].pc = "get_last_summary_id"
          /\ ( /\ FailureLogged(c)
               /\ task[t].pc = "get_last_summary_id"
               /\ StepOf(t)
               /\ ~RaisedIn(t) )
             => IF m - WatermarkLogged >= interval(c)
                THEN /\ task'[t].pc = "get_messages"
                     /\ task'[t].last_summary_id = WatermarkLogged
                     /\ c \in generating_chats'
                ELSE /\ ReturnOf(t)
                     /\ wide_log'.reason = "interval_not_reached"
                     /\ c \notin generating_chats'
      ]_vars

\* after a generation failed before its summary was sent, a later message
\* of the chat is in a generation with the same window start
FailedGenerationAwaitsNextMessageWitness ==
    \E t \in Tasks :
        /\ FailureLogged(chat_id(t))
        /\ wide_log.reason = "error"
        /\ ~wide_log.sent
        /\ wide_log.request_id # t
        /\ message_id(t) > message_id(wide_log.request_id)
        /\ task[t].pc = "get_messages"
        /\ task[t].last_summary_id = wide_log.last_summary_id
        /\ chat_id(t) \in generating_chats

\* lines 69-91: the calls a task makes while it holds its chat's lock
DecisionPhase == {"summary_lock", "get_last_summary_id", "set_first_run"}

\* C21: a chat's lock is held only by a task of that chat in its decision
\* phase (locked check, watermark read, first-run write, threshold test,
\* flag set), never by one that fetches, generates, sends or persists, and
\* only tasks of the chat wait for it; a handler is answered
\* already_generating only for a generation of its own chat, and a message
\* that reaches the threshold starts its generation whatever the other
\* chats are doing.
LockOnlyForDecision ==
    /\ [](\A c \in DOMAIN summary_locks :
             LET l == summary_locks[c] IN
             /\ l.holder # NoTask
                => chat_id(l.holder) = c /\ task[l.holder].pc \in DecisionPhase
             /\ \A i \in 1..Len(l.waiters) :
                    /\ chat_id(l.waiters[i]) = c
                    /\ task[l.waiters[i]].pc = "summary_lock")
    /\ [][\A t \in Tasks :
             LET c == chat_id(t) IN
             /\ (ReturnOf(t) /\ wide_log'.reason = "already_generating")
                => \E u \in TasksOf(c) : InGeneration(u)
             /\ ( /\ task[t].pc = "get_last_summary_id"
                  /\ StepOf(t)
                  /\ ~RaisedIn(t)
                  /\ HasWatermark(c)
                  /\ message_id(t) - Watermark(c) >= interval(c) )
                => /\ InGeneration(t)'
                   /\ summary_locks'[c].holder # t
                   /\ generating_chats' = generating_chats \cup {c}
         ]_vars

\* the two chats are generating at once, neither task holding a chat lock
LockOnlyForDecisionWitness ==
    \E t \in TasksOf("chat_a"), u \in TasksOf("chat_b") :
        /\ InGeneration(t)
        /\ InGeneration(u)
        /\ generating_chats = {"chat_a", "chat_b"}
        /\ \A c \in DOMAIN summary_locks : summary_locks[c] = FreeLock

\* C22: the sticker cache holds one row per file_unique_id at most and a
\* row, once created, stays as it is; a handler whose cache write comes
\* second, rejected or not, goes on to save its message with the
\* description it was given, and no exception reaches handle_message.
StickerCacheImmutable ==
    /\ [](\A r1, r2 \in sticker_cache :
             r1.file_unique_id = r2.file_unique_id => r1 = r2)
    /\ [][/\ sticker_cache \subseteq sticker_cache'
          /\ \A t \in Tasks :
                (task[t].pc = "save_sticker" /\ StepOf(t))
                => /\ task'[t].pc = "save_message"
                   /\ task'[t].desc = task[t].desc
                   /\ ~RaisedIn(t)
                   /\ StickerCached(FILE_UNIQUE_ID)
                      => sticker_cache' = sticker_cache
         ]_vars

\* two handlers described the same uncached sticker: the first one's text
\* is the cache entry and its message is stored with it, the second one's
\* write was turned away and it is saving its message with its own text
StickerCacheImmutableWitness ==
    \E t, u \in Tasks :
        /\ t # u
        /\ StickerCached(FILE_UNIQUE_ID)
        /\ CachedDescription(FILE_UNIQUE_ID) = described(t)
        /\ [chat_id |-> chat_id(t), message_id |-> message_id(t),
            description |-> described(t)] \in message
        /\ task[u].pc = "save_message"
        /\ task[u].att = "sticker"
        /\ task[u].desc = described(u)
        /\ described(u) # described(t)

\* lines 185-189: the media fetch, the vision call and the cache write
FetchDescribeCache == {"download", "describe", "save_sticker"}

\* C23: a handler whose sticker is animated or video, without thumbnail
\* and not in the cache, never fetches media, calls the vision model or
\* writes the cache: when the lookup has answered it calls save_message
\* with no description and the cache as it was, no exception reaching
\* handle_message, and when save_message has answered the trigger engine
\* has been called for the stored message.
NoThumbnailFailsSoftly ==
    /\ [](\A t \in Tasks :
             task[t].att = "animated_sticker"
             => /\ task[t].pc \notin FetchDescribeCache
                /\ task[t].desc = NoDescription
                /\ ~StickerCached(ANIMATED_FILE_UNIQUE_ID))
    /\ [][\A t \in Tasks :
             /\ ( /\ task[t].att = "animated_sticker"
                  /\ task[t].pc = "get_sticker"
                  /\ StepOf(t) )
                => /\ task'[t].pc = "save_message"
                   /\ task'[t].desc = NoDescription
                   /\ ~RaisedIn(t)
                   /\ UNCHANGED <<sticker_cache, message>>
             /\ ( /\ task[t].att = "animated_sticker"
                  /\ task[t].pc = "save_message"
                  /\ StepOf(t)
                  /\ ~RaisedIn(t) )
                => /\ [chat_id |-> chat_id(t), message_id |-> message_id(t),
                       description |-> NoDescription] \in message'
                   /\ \/ task'[t].pc \in DecisionPhase
                      \/ /\ ReturnOf(t)
                         /\ wide_log'.reason = "already_generating"
         ]_vars

\* the message of an animated sticker without thumbnail is stored with no
\* description and its handler is in the trigger engine, the cache empty
NoThumbnailFailsSoftlyWitness ==
    \E t \in Tasks :
        /\ task[t].att = "animated_sticker"
        /\ task[t].pc = "get_last_summary_id"
        /\ [chat_id |-> chat_id(t), message_id |-> message_id(t),
            description |-> NoDescription] \in message
        /\ sticker_cache = {}

\* lines 52-140: the task is in maybe_generate_summary
InEngine(t) == task[t].pc \in DecisionPhase \/ InGeneration(t)

\* C24: a handler goes from the description stage to save_message and from
\* save_message to the trigger engine, never another way: a row is added
\* to the messages only by a handler whose save_message answers, the
\* engine is entered only in the step that stored the handler's message,
\* and a save_message that raises ends the handler with nothing of the
\* engine run.  So the message of a handler in the engine is stored, its
\* fetched window ends with it, and no handler finds its window empty.
IngestionOrder ==
    /\ [](\A t \in Tasks :
             /\ InEngine(t) => MessageExists(chat_id(t), message_id(t))
             /\ task[t].pc \in {"generate_summary", "send_html", "send_plain",
                                "set_last_summary_id", "save_summary"}
                => /\ task[t].window # <<>>
                   /\ task[t].window[Len(task[t].window)] = message_id(t))
    /\ [](wide_log.reason # "no_messages")
    /\ [][\A t \in Tasks :
             /\ (InDescribe(t)' /\ ~InDescribe(t)) => task[t].pc = "idle"
             /\ (task'[t].pc = "save_message" /\ StepOf(t))
                => task[t].pc = "idle" \/ InDescribe(t)
             /\ (InEngine(t)' /\ ~InEngine(t))
                => /\ task[t].pc = "save_message"
                   /\ message' = message
                         \cup {[chat_id |-> chat_id(t),
                                message_id |-> message_id(t),
                                description |-> task[t].desc]}
                   /\ message' # message
             /\ (task[t].pc = "save_message" /\ RaisedIn(t))
                => /\ UNCHANGED <<message, chat_state, summary, outbox,
                                  generating_chats, summary_locks>>
                   /\ ~wide_log'.attempted
                   /\ wide_log'.last_summary_id = 0
             /\ (StepOf(t) /\ message' # message)
                => task[t].pc = "save_message"
         ]_vars

\* a sticker's handler, its description made and its message stored with
\* it, has fetched a window that ends with its message, after the save of
\* another message was turned away
IngestionOrderWitness ==
    \E t \in Tasks :
        /\ task[t].att = "sticker"
        /\ task[t].desc = described(t)
        /\ task[t].pc = "generate_summary"
        /\ Len(task[t].window) >= 2
        /\ [chat_id |-> chat_id(t), message_id |-> message_id(t),
            description |-> described(t)] \in message
        /\ wide_log.error
        /\ ~wide_log.attempted

\* C25: when a summary was sent and the watermark written for it, every
\* stored message of the chat between the window start and the new
\* watermark is one of the messages the summary was made from.
NoMessageSkipped ==
    \A t \in Tasks :
        task[t].pc = "save_summary"
        => \A r \in message :
              ( /\ r.chat_id = chat_id(t)
                /\ task[t].last_summary_id < r.message_id
                /\ r.message_id <= Watermark(chat_id(t)) )
              => \E i \in 1..Len(task[t].window) :
                     task[t].window[i] = r.message_id

\* C26: the windows (from, to] of any two summaries sent to a chat are
\* disjoint.
SentRangesDisjoint ==
    \A o1, o2 \in outbox :
        (o1 # o2 /\ o1.chat_id = o2.chat_id)
        => \/ o1.to_message_id <= o2.from_message_id
           \/ o2.to_message_id <= o1.from_message_id

\* C27: every Summary record covers a window of at least one interval that
\* ends at or below the chat's watermark: from_message_id < to_message_id,
\* to_message_id - from_message_id >= interval, and the chat has a
\* watermark >= to_message_id.
SummaryBelowWatermark ==
    \A i \in 1..Len(summary) :
        LET r == summary[i] IN
        /\ r.from_message_id < r.to_message_id
        /\ r.to_message_id - r.from_message_id >= interval(r.chat_id)
        /\ HasWatermark(r.chat_id)
        /\ r.to_message_id <= Watermark(r.chat_id)

\* one Summary record exists and the watermark has moved on a whole
\* interval past it, no Summary covering that range and no handler running
SummaryBelowWatermarkWitness ==
    /\ Len(summary) = 1
    /\ Watermark(summary[1].chat_id)
           = summary[1].to_message_id + interval(summary[1].chat_id)
    /\ Active = {}

\* lines 73 and 78: the store calls made under the chat's lock
LockedStoreCalls == {"get_last_summary_id", "set_first_run"}

\* C28: when the watermark read or the first-run write raises, the handler
\* is over with the error logged, the chat's lock has gone to the next
\* waiter or is free, the flag is not set and the watermark rows are as
\* they were; no lock is ever held by a task that is not running, and
\* after such an error a message that finds no other handler running
\* takes the chat's lock at once.
LockedFailureReleases ==
    /\ [](\A t \in Tasks :
             task[t].pc = "idle"
             => /\ db_lock.holder # t
                /\ \A c \in DOMAIN summary_locks :
                       /\ summary_locks[c].holder # t
                       /\ \A i \in 1..Len(summary_locks[c].waiters) :
                              summary_locks[c].waiters[i] # t)
    /\ [][\A t \in Tasks :
             LET c == chat_id(t) IN
             /\ (task[t].pc \in LockedStoreCalls /\ RaisedIn(t))
                => /\ summary_locks[c].holder = t
                   /\ summary_locks'[c].holder # t
                   /\ summary_locks[c].waiters = <<>>
                      => summary_locks'[c] = FreeLock
                   /\ summary_locks[c].waiters # <<>>
                      => summary_locks'[c].holder = Head(summary_locks[c].waiters)
                   /\ c \notin generating_chats'
                   /\ UNCHANGED <<chat_state, generating_chats, message,
                                  summary, outbox>>
                   /\ wide_log'.error
                   /\ ~wide_log'.attempted
             /\ ( /\ task[t].pc = "save_message"
                  /\ StepOf(t)
                  /\ ~RaisedIn(t)
                  /\ Active = {t}
                  /\ wide_log.error )
                => /\ task'[t].pc = "get_last_summary_id"
                   /\ summary_locks'[c].holder = t
         ]_vars

\* the watermark read of a new chat's first message raised; the chat's
\* second message is stored and its handler holds the chat's lock, reading
\* the watermark
LockedFailureReleasesWitness ==
    \E t, u \in Tasks :
        /\ t # u
        /\ chat_id(t) = chat_id(u)
        /\ wide_log.request_id = t
        /\ wide_log.error
        /\ delivered = 2
        /\ MessageExists(chat_id(t), message_id(t))
        /\ MessageExists(chat_id(u), message_id(u))
        /\ ~HasWatermark(chat_id(t))
        /\ task[u].pc = "get_last_summary_id"
        /\ summary_locks[chat_id(u)].holder = u

\* the task waits for lock l
WaitsFor(t, l) == \E i \in 1..Len(l.waiters) : l.waiters[i] = t

\* C29: every handler that has started ends: no task stays away from idle
\* for ever.  A task that waits for a
\* chat's lock neither holds nor waits for the store's lock and holds no
\* chat lock, a task has to do with the lock of its own chat only, and the
\* holder of the store's lock is a running task that waits for no lock.
HandlersTerminate ==
    /\ [](\A t \in Tasks :
             /\ \A c \in DOMAIN summary_locks :
                    /\ (summary_locks[c].holder = t
                            \/ WaitsFor(t, summary_locks[c]))
                       => c = chat_id(t)
                    /\ WaitsFor(t, summary_locks[c])
                       => /\ db_lock.holder # t
                          /\ ~WaitsFor(t, db_lock)
                          /\ summary_locks[c].holder \notin {t, NoTask}
             /\ db_lock.holder = t
                => /\ task[t].pc # "idle"
                   /\ ~WaitsFor(t, db_lock))
    /\ \A t \in FairTasks : []<>(task[t].pc = "idle")

\* a handler holds its chat's lock and waits for the store's lock, which a
\* handler of the other chat holds
HandlersTerminateWitness ==
    \E t \in TasksOf("chat_a"), u \in TasksOf("chat_b") :
        /\ chat_id(t) \in DOMAIN summary_locks
        /\ summary_locks[chat_id(t)].holder = t
        /\ WaitsFor(t, db_lock)
        /\ db_lock.holder = u
        /\ task[u].pc = "save_message"

====
